---- MODULE Spec2Model ----
(***************************************************************************)
(* Model of app.py, the Streamlit front end of the Grocery Store           *)
(* Automation Suite.  Streamlit re-runs the whole script on every user     *)
(* interaction: one action below is one re-run (the batch loop of tab 3 is *)
(* unfolded into one step per document, because its progress bar is       *)
(* observable between documents).  What a re-run displays (results,        *)
(* status messages, download buttons) lives only for that re-run; what is  *)
(* kept across re-runs is st.session_state and the widgets' values.        *)
(*                                                                         *)
(* Text is modelled as a sequence of one-character strings, so that        *)
(* str.replace, line splitting and numeric formats are computed.           *)
(***************************************************************************)
EXTENDS Integers, Sequences, FiniteSets, TLC

VARIABLES
    demo_mode,          \* TRUE iff `from automation_scripts import ...` raised ImportError
    selected_store,     \* sidebar selectbox
    current_task,       \* st.session_state.current_task
    selected_supplier,  \* tab 1 selectbox
    uploaded_file,      \* tab 1 file_uploader (key order_excel): NoFile or a file name
    order_status,       \* what the auto-fill handler displayed in this re-run
    activity_log,       \* st.session_state.activity_log: sequence of records
    uploaded_excel,     \* tab 2 file_uploader (key supplier_excel): NoSheet or a sheet
    column_mapping,     \* st.session_state.column_mapping: sequence of <<column, field>>
    output_format,      \* tab 2 selectbox
    convert_status,     \* what the Convert Format handler displayed in this re-run
    processed_df,       \* the converted table displayed in this re-run
    uploaded_pdf,       \* tab 3 file_uploader (key invoice_pdf)
    multiple_files,     \* tab 3 batch file_uploader: sequence of file names
    invoice_supplier,   \* tab 3 selectbox
    single_status,      \* what the Convert Single Invoice handler displayed
    txt_content,        \* the text the single conversion produced in this re-run
    pc,                 \* batch handler: idle, loop, package, done (its output on screen)
    results,            \* the batch handler's local list `results`
    progress,           \* value last given to progress_bar, as the fraction num/den
    zip_entries,        \* entries written to the zip archive
    outcomes,           \* per batch call of convert_pdf_to_ecrs: document index and outcome
    last_call,          \* the call of convert_pdf_to_ecrs made in this step, if any
    history             \* observed (arguments, result) pairs of the function of app.py:38

vars == <<demo_mode, selected_store, current_task, selected_supplier, uploaded_file,
          order_status, activity_log, uploaded_excel, column_mapping, output_format,
          convert_status, processed_df, uploaded_pdf, multiple_files, invoice_supplier,
          single_status, txt_content, pc, results, progress, zip_entries, outcomes,
          last_call, history>>

tab1vars == <<selected_supplier, uploaded_file, order_status, activity_log>>
tab2vars == <<uploaded_excel, column_mapping, output_format, convert_status, processed_df>>
tab3vars == <<uploaded_pdf, multiple_files, invoice_supplier, single_status, txt_content,
              pc, results, progress, zip_entries, outcomes, last_call>>

(***************************************************************************)
(* Bounds of the model.                                                    *)
(***************************************************************************)
MaxFiles == 3      \* documents in one batch upload
MaxRows == 3       \* data rows of an uploaded supplier sheet
MaxLog == 2        \* records the activity log may hold before the model stops adding

(***************************************************************************)
(* Values standing for "absent".                                           *)
(***************************************************************************)
NoFile == "NoFile"     \* tab 1 uploader empty
NoPdf == <<>>          \* tab 3 single uploader empty (no file name is empty)
NoLog == <<>>          \* key activity_log absent (the code never leaves an empty list)
NoMapping == <<>>      \* key column_mapping absent (the code never stores an empty dict)
NoTable == <<>>        \* no table displayed (convert_status tells it from an empty table)
NoText == <<>>         \* no text displayed (single_status tells it from an empty text)
NoProgress == [num |-> 0, den |-> 0]   \* no progress bar on screen
NoZip == <<>>          \* no archive built (pc = "done" tells it from an empty archive)

(***************************************************************************)
(* Widget option lists.  The store and supplier lists of the code hold 6   *)
(* and 4 (5 in tab 3) options; the values are only passed through, so the  *)
(* model keeps the first two of each.                                      *)
(***************************************************************************)
stores == {"STORE001", "STORE002"}
suppliers == {"supplier_a", "supplier_b"}
invoice_suppliers == {"Supplier A", "Supplier B"}
output_formats == {"Standard Order Sheet", "ECRS Import Format", "Inventory Update"}
canonical_fields == {"Item Name", "Quantity", "Price", "SKU", "Unit", "Ignore"}
\* index 0 of the mapping selectbox: what a freshly rendered selectbox holds
default_field == "Item Name"

(***************************************************************************)
(* Text constants.                                                         *)
(***************************************************************************)
NL == "\n"
ext_pdf == <<".", "p", "d", "f">>
ext_txt == <<".", "t", "x", "t">>
error_prefix == <<"E", "R", "R", "O", "R", ":", " ">>

\* File names the batch uploader (type=["pdf"]) can deliver: the extension
\* is matched without regard to case, and the stem is free.
name_a == <<"a", ".", "p", "d", "f">>
name_B == <<"b", ".", "P", "D", "F">>
name_c == <<"c", ".", "p", "d", "f", ".", "p", "d", "f">>
pdf_names == {name_a, name_B, name_c}

\* The text the fallback convert_pdf_to_ecrs returns:
\* "INVOICE_DATA\nITEM1,10,100\nITEM2,5,200"
demo_text ==
    <<"I","N","V","O","I","C","E","_","D","A","T","A", NL,
      "I","T","E","M","1", ",", "1","0", ",", "1","0","0", NL,
      "I","T","E","M","2", ",", "5", ",", "2","0","0">>

\* The imported automation_scripts package is not part of app.py: what its
\* functions return or raise is an input of the model.
external_texts == { <<"M","i","l","k", ",", "2",".","0","0", ",", "3",".","0","0", NL>> }
external_errors == { <<"b","a","d">> }

\* The table the fallback process_supplier_excel returns.
demo_table ==
    << [Item |-> "Demo1", Quantity |-> 10], [Item |-> "Demo2", Quantity |-> 20] >>

(***************************************************************************)
(* str.replace(old, new): every non-overlapping occurrence, left to right, *)
(* compared character by character (so case-sensitively).                  *)
(***************************************************************************)
StartsWith(s, p) ==
    /\ Len(s) >= Len(p)
    /\ SubSeq(s, 1, Len(p)) = p

RECURSIVE replace(_, _, _)
replace(s, old, new) ==
    IF s = <<>> THEN <<>>
    ELSE IF StartsWith(s, old)
         THEN new \o replace(SubSeq(s, Len(old) + 1, Len(s)), old, new)
         ELSE <<Head(s)>> \o replace(Tail(s), old, new)

entry_name(filename) == replace(filename, ext_pdf, ext_txt)

(***************************************************************************)
(* The three automation functions.  In demo mode they are the fallbacks of *)
(* app.py:28-41, which ignore their arguments and never raise.  Otherwise  *)
(* they are imported: any result, or an exception.  An outcome is a record *)
(* [raised, value].                                                        *)
(***************************************************************************)
Returned(v) == [raised |-> FALSE, value |-> v]
Raised(e) == [raised |-> TRUE, value |-> e]

auto_fill_supplier_order(excel_file, supplier_name, store_id) ==
    <<"Order for", supplier_name, "(Store:", store_id, ") processed successfully.">>

process_supplier_excel(input_file, format) == demo_table

\* A variant that keeps its output buffer between calls: after the first
\* call the text starts with what an earlier call left behind.
convert_pdf_to_ecrs_keeping_buffer(pdf_file, store_id, supplier_name) ==
    IF history = {} THEN demo_text ELSE demo_text \o <<NL>> \o demo_text

convert_pdf_to_ecrs(pdf_file, store_id, supplier_name) == demo_text

auto_fill_outcomes(excel_file, supplier_name, store_id) ==
    IF demo_mode
    THEN { Returned(auto_fill_supplier_order(excel_file, supplier_name, store_id)) }
    ELSE { Returned(<<"done">>) } \cup { Raised(e) : e \in external_errors }

\* An imported process_supplier_excel is taken to return one row per input
\* row, or to raise.
process_outcomes(input_file, format) ==
    IF demo_mode
    THEN { Returned(process_supplier_excel(input_file, format)) }
    ELSE { Returned([r \in 1..input_file.nrows |-> [row |-> r]]) }
             \cup { Raised(e) : e \in external_errors }

convert_outcomes(pdf_file, store_id, supplier_name) ==
    IF demo_mode
    THEN { Returned(convert_pdf_to_ecrs(pdf_file, store_id, supplier_name)) }
    ELSE { Returned(t) : t \in external_texts } \cup { Raised(e) : e \in external_errors }

\* local: the function called is the one defined in app.py
Call(pdf_file, store_id, supplier_name, o) ==
    [made |-> TRUE, pdf_file |-> pdf_file, store_id |-> store_id,
     supplier_name |-> supplier_name, outcome |-> o, local |-> demo_mode]

NoCall ==
    [made |-> FALSE, pdf_file |-> <<>>, store_id |-> "", supplier_name |-> "",
     outcome |-> Returned(<<>>), local |-> FALSE]


(***************************************************************************)
(* Input domains.                                                          *)
(***************************************************************************)
SeqsUpTo(S, n) == UNION { [1..k -> S] : k \in 0..n }

order_files == {"order.xlsx"}

\* A sheet pd.read_excel can read (with or without columns) or cannot read
\* (the uploader also accepts csv, which read_excel rejects).
Sheet(name, readable, columns, nrows) ==
    [present |-> TRUE, name |-> name, readable |-> readable, columns |-> columns,
     nrows |-> nrows]

\* tab 2 uploader empty
NoSheet ==
    [present |-> FALSE, name |-> "", readable |-> FALSE, columns |-> <<>>, nrows |-> 0]

sheets ==
    { Sheet("s.xlsx", TRUE, <<"A", "B">>, n) : n \in 0..MaxRows }
        \cup { Sheet("empty.xlsx", TRUE, <<>>, 0), Sheet("s.csv", FALSE, <<>>, 0) }

batches == SeqsUpTo(pdf_names, MaxFiles)

\* The inputs the specification of the whole application draws from.
app_sheets == { Sheet("s.xlsx", TRUE, <<"A", "B">>, 1) }
app_pdfs == {name_a}
app_batches == { <<>>, <<name_a, name_B>> }

\* The batches under which calls are observed: one holds the same file twice.
observed_batches == { <<>>, <<name_a, name_a>>, <<name_a, name_B>> }

Range(s) == { s[k] : k \in 1..Len(s) }

(***************************************************************************)
(* Initial state: the first run of the script, nothing uploaded, every     *)
(* selectbox on its first option (app.py:44-49, 66, 123, 241, 307).        *)
(***************************************************************************)
Init ==
    /\ demo_mode \in BOOLEAN
    /\ selected_store = "STORE001"
    /\ current_task = "None"
    /\ selected_supplier = "supplier_a"
    /\ uploaded_file = NoFile
    /\ order_status = "none"
    /\ activity_log = NoLog
    /\ uploaded_excel = NoSheet
    /\ column_mapping = NoMapping
    /\ output_format = "Standard Order Sheet"
    /\ convert_status = "none"
    /\ processed_df = NoTable
    /\ uploaded_pdf = NoPdf
    /\ multiple_files = <<>>
    /\ invoice_supplier = "Supplier A"
    /\ single_status = "none"
    /\ txt_content = NoText
    /\ pc = "idle"
    /\ results = <<>>
    /\ progress = NoProgress
    /\ zip_entries = NoZip
    /\ outcomes = <<>>
    /\ last_call = NoCall
    /\ history = {}

\* The script is not in the middle of the batch loop: a new re-run can start.
\* (A batch run is taken to run to its end: an interaction that makes
\* Streamlit abandon a running script is not modelled.)
Ready == pc \in {"idle", "done"}

(***************************************************************************)
(* What a re-run does to a tab whose button was not pressed: the tab's     *)
(* widgets keep their values, its handler's output is not rendered.        *)
(***************************************************************************)
Idle1 ==
    /\ order_status' = "none"
    /\ UNCHANGED <<selected_supplier, uploaded_file, activity_log>>

Idle2 ==
    /\ convert_status' = "none"
    /\ processed_df' = NoTable
    /\ UNCHANGED <<uploaded_excel, column_mapping, output_format>>

NoBatchOutput ==
    /\ results' = <<>>
    /\ progress' = NoProgress
    /\ zip_entries' = NoZip
    /\ outcomes' = <<>>

NoSingleOutput ==
    /\ single_status' = "none"
    /\ txt_content' = NoText

Idle3 ==
    /\ NoSingleOutput
    /\ NoBatchOutput
    /\ last_call' = NoCall
    /\ pc' = "idle"
    /\ UNCHANGED <<uploaded_pdf, multiple_files, invoice_supplier>>

(***************************************************************************)
(* Sidebar.                                                                *)
(***************************************************************************)
SelectStore(s) ==
    /\ Ready
    /\ selected_store' = s
    /\ UNCHANGED <<demo_mode, current_task>>
    /\ Idle1 /\ Idle2 /\ Idle3

ProcessAllPending ==
    /\ Ready
    /\ current_task' = "batch_process"
    /\ UNCHANGED <<demo_mode, selected_store>>
    /\ Idle1 /\ Idle2 /\ Idle3

ViewReports ==
    /\ Ready
    /\ current_task' = "reports"
    /\ UNCHANGED <<demo_mode, selected_store>>
    /\ Idle1 /\ Idle2 /\ Idle3

(***************************************************************************)
(* Tab 1: auto-fill supplier orders.                                       *)
(***************************************************************************)
\* The record appended at app.py:189-195 (the timestamp is left out).
LogRecord(supplier, store, file) ==
    [task |-> "order_fill", supplier |-> supplier, store |-> store, file |-> file]

SelectSupplier(s) ==
    /\ Ready
    /\ selected_supplier' = s
    /\ order_status' = "none"
    /\ UNCHANGED <<uploaded_file, activity_log>>
    /\ UNCHANGED <<demo_mode, selected_store, current_task>>
    /\ Idle2 /\ Idle3

UploadOrderFile(f) ==
    /\ Ready
    /\ uploaded_file' = f
    /\ order_status' = "none"
    /\ UNCHANGED <<selected_supplier, activity_log>>
    /\ UNCHANGED <<demo_mode, selected_store, current_task>>
    /\ Idle2 /\ Idle3

\* A variant of the handler that logs the attempt whether or not the
\* automation function raised.
StartAutoFillLoggingFailures ==
    /\ Ready
    /\ Len(activity_log) < MaxLog
    /\ IF uploaded_file # NoFile
       THEN \E o \in auto_fill_outcomes(uploaded_file, selected_supplier, selected_store) :
               /\ order_status' = IF o.raised THEN "failed" ELSE "success"
               /\ activity_log' =
                      Append(activity_log,
                             LogRecord(selected_supplier, selected_store, uploaded_file))
       ELSE /\ order_status' = "no_file"
            /\ UNCHANGED activity_log
    /\ UNCHANGED <<selected_supplier, uploaded_file>>
    /\ UNCHANGED <<demo_mode, selected_store, current_task>>
    /\ Idle2 /\ Idle3

StartAutoFill ==
    /\ Ready
    /\ Len(activity_log) < MaxLog
    /\ IF uploaded_file # NoFile
       THEN \E o \in auto_fill_outcomes(uploaded_file, selected_supplier, selected_store) :
               IF ~o.raised
               THEN /\ order_status' = "success"
                    /\ activity_log' =
                           Append(activity_log,
                                  LogRecord(selected_supplier, selected_store, uploaded_file))
               ELSE /\ order_status' = "failed"
                    /\ UNCHANGED activity_log
       ELSE /\ order_status' = "no_file"
            /\ UNCHANGED activity_log
    /\ UNCHANGED <<selected_supplier, uploaded_file>>
    /\ UNCHANGED <<demo_mode, selected_store, current_task>>
    /\ Idle2 /\ Idle3

(***************************************************************************)
(* Tab 2: process supplier sheets.                                         *)
(***************************************************************************)
\* The mapping selectboxes are rendered iff the sheet was read and has columns.
MappingShown(sheet) ==
    /\ sheet.present
    /\ sheet.readable
    /\ Len(sheet.columns) > 0

\* The field a mapping gives a column it holds.
FieldOf(mapping, c) ==
    LET k == CHOOSE j \in 1..Len(mapping) : mapping[j][1] = c
    IN mapping[k][2]

\* app.py:227-235: one selectbox per column, keyed by the column name; a
\* selectbox that was on screen in the previous run keeps its value, a new
\* one holds the first option.
MappingAfterUpload(sheet) ==
    IF MappingShown(sheet)
    THEN [k \in 1..Len(sheet.columns) |->
             LET c == sheet.columns[k]
             IN IF MappingShown(uploaded_excel) /\ c \in Range(uploaded_excel.columns)
                THEN <<c, FieldOf(column_mapping, c)>>
                ELSE <<c, default_field>>]
    ELSE column_mapping

UploadSheet(f) ==
    /\ Ready
    /\ uploaded_excel' = f
    /\ column_mapping' = MappingAfterUpload(f)
    /\ convert_status' = "none"
    /\ processed_df' = NoTable
    /\ UNCHANGED output_format
    /\ UNCHANGED <<demo_mode, selected_store, current_task>>
    /\ Idle1 /\ Idle3

SelectMapping(c, fld) ==
    /\ Ready
    /\ MappingShown(uploaded_excel)
    /\ c \in Range(uploaded_excel.columns)
    /\ column_mapping' =
           [k \in 1..Len(column_mapping) |->
               IF column_mapping[k][1] = c THEN <<c, fld>> ELSE column_mapping[k]]
    /\ convert_status' = "none"
    /\ processed_df' = NoTable
    /\ UNCHANGED <<uploaded_excel, output_format>>
    /\ UNCHANGED <<demo_mode, selected_store, current_task>>
    /\ Idle1 /\ Idle3

SelectOutputFormat(f) ==
    /\ Ready
    /\ output_format' = f
    /\ convert_status' = "none"
    /\ processed_df' = NoTable
    /\ UNCHANGED <<uploaded_excel, column_mapping>>
    /\ UNCHANGED <<demo_mode, selected_store, current_task>>
    /\ Idle1 /\ Idle3

ConvertFormat ==
    /\ Ready
    /\ IF uploaded_excel.present
       THEN \E o \in process_outcomes(uploaded_excel, output_format) :
               IF ~o.raised
               THEN /\ convert_status' = "success"
                    /\ processed_df' = o.value
               ELSE /\ convert_status' = "failed"
                    /\ processed_df' = NoTable
       ELSE /\ convert_status' = "no_file"
            /\ processed_df' = NoTable
    /\ UNCHANGED <<uploaded_excel, column_mapping, output_format>>
    /\ UNCHANGED <<demo_mode, selected_store, current_task>>
    /\ Idle1 /\ Idle3


(***************************************************************************)
(* Tab 3: convert PDF invoices.                                            *)
(***************************************************************************)
SelectInvoiceSupplier(s) ==
    /\ Ready
    /\ invoice_supplier' = s
    /\ NoSingleOutput /\ NoBatchOutput
    /\ last_call' = NoCall
    /\ pc' = "idle"
    /\ UNCHANGED <<uploaded_pdf, multiple_files>>
    /\ UNCHANGED <<demo_mode, selected_store, current_task>>
    /\ Idle1 /\ Idle2

UploadPdf(f) ==
    /\ Ready
    /\ uploaded_pdf' = f
    /\ NoSingleOutput /\ NoBatchOutput
    /\ last_call' = NoCall
    /\ pc' = "idle"
    /\ UNCHANGED <<multiple_files, invoice_supplier>>
    /\ UNCHANGED <<demo_mode, selected_store, current_task>>
    /\ Idle1 /\ Idle2

UploadBatch(fs) ==
    /\ Ready
    /\ multiple_files' = fs
    /\ NoSingleOutput /\ NoBatchOutput
    /\ last_call' = NoCall
    /\ pc' = "idle"
    /\ UNCHANGED <<uploaded_pdf, invoice_supplier>>
    /\ UNCHANGED <<demo_mode, selected_store, current_task>>
    /\ Idle1 /\ Idle2

\* app.py:331-356; the button exists only while a PDF is uploaded.
ConvertSingle ==
    /\ Ready
    /\ uploaded_pdf # NoPdf
    /\ \E o \in convert_outcomes(uploaded_pdf, selected_store, invoice_supplier) :
          /\ last_call' = Call(uploaded_pdf, selected_store, invoice_supplier, o)
          /\ IF ~o.raised
             THEN /\ single_status' = "success"
                  /\ txt_content' = o.value
             ELSE /\ single_status' = "failed"
                  /\ txt_content' = NoText
    /\ NoBatchOutput
    /\ pc' = "idle"
    /\ UNCHANGED <<uploaded_pdf, multiple_files, invoice_supplier>>
    /\ UNCHANGED <<demo_mode, selected_store, current_task>>
    /\ Idle1 /\ Idle2

\* app.py:359-362: the batch button is pressed; the handler shows an empty
\* progress bar and starts with an empty result list.
BatchStart ==
    /\ Ready
    /\ Len(multiple_files) > 0
    /\ pc' = "loop"
    /\ progress' = [num |-> 0, den |-> 1]
    /\ results' = <<>>
    /\ outcomes' = <<>>
    /\ zip_entries' = NoZip
    /\ NoSingleOutput
    /\ last_call' = NoCall
    /\ UNCHANGED <<uploaded_pdf, multiple_files, invoice_supplier>>
    /\ UNCHANGED <<demo_mode, selected_store, current_task>>
    /\ Idle1 /\ Idle2

\* What the loop appends for one document (app.py:371, 373).
ResultEntry(pdf_file, o) ==
    <<pdf_file, IF o.raised THEN error_prefix \o o.value ELSE o.value>>

\* A variant of the loop body that leaves the loop at the first exception.
BatchStepStoppingAtFailure ==
    /\ pc = "loop"
    /\ LET i == Len(results)
           pdf_file == multiple_files[i + 1]
       IN \E o \in convert_outcomes(pdf_file, selected_store, invoice_supplier) :
             /\ last_call' = Call(pdf_file, selected_store, invoice_supplier, o)
             /\ outcomes' = Append(outcomes, [doc |-> i + 1, raised |-> o.raised])
             /\ IF o.raised
                THEN /\ UNCHANGED <<results, progress>>
                     /\ pc' = "package"
                ELSE /\ results' = Append(results, ResultEntry(pdf_file, o))
                     /\ progress' = [num |-> i + 1, den |-> Len(multiple_files)]
                     /\ pc' = IF i + 1 = Len(multiple_files) THEN "package" ELSE "loop"
    /\ UNCHANGED <<zip_entries, single_status, txt_content>>
    /\ UNCHANGED <<uploaded_pdf, multiple_files, invoice_supplier>>
    /\ UNCHANGED <<demo_mode, selected_store, current_task>>
    /\ UNCHANGED <<tab1vars, tab2vars>>

\* A variant of the loop body that advances the progress bar only after a
\* conversion that returned.
BatchStepProgressOnSuccess ==
    /\ pc = "loop"
    /\ LET i == Len(results)
           pdf_file == multiple_files[i + 1]
       IN \E o \in convert_outcomes(pdf_file, selected_store, invoice_supplier) :
             /\ last_call' = Call(pdf_file, selected_store, invoice_supplier, o)
             /\ outcomes' = Append(outcomes, [doc |-> i + 1, raised |-> o.raised])
             /\ results' = Append(results, ResultEntry(pdf_file, o))
             /\ progress' = IF o.raised THEN progress
                            ELSE [num |-> i + 1, den |-> Len(multiple_files)]
             /\ pc' = IF i + 1 = Len(multiple_files) THEN "package" ELSE "loop"
    /\ UNCHANGED <<zip_entries, single_status, txt_content>>
    /\ UNCHANGED <<uploaded_pdf, multiple_files, invoice_supplier>>
    /\ UNCHANGED <<demo_mode, selected_store, current_task>>
    /\ UNCHANGED <<tab1vars, tab2vars>>

\* app.py:364-375: one iteration of `for i, pdf_file in enumerate(multiple_files)`.
\* Every iteration appends once, so i = len(results).
BatchStep ==
    /\ pc = "loop"
    /\ LET i == Len(results)
           pdf_file == multiple_files[i + 1]
       IN \E o \in convert_outcomes(pdf_file, selected_store, invoice_supplier) :
             /\ last_call' = Call(pdf_file, selected_store, invoice_supplier, o)
             /\ outcomes' = Append(outcomes, [doc |-> i + 1, raised |-> o.raised])
             /\ results' = Append(results, ResultEntry(pdf_file, o))
             /\ progress' = [num |-> i + 1, den |-> Len(multiple_files)]
             /\ pc' = IF i + 1 = Len(multiple_files) THEN "package" ELSE "loop"
    /\ UNCHANGED <<zip_entries, single_status, txt_content>>
    /\ UNCHANGED <<uploaded_pdf, multiple_files, invoice_supplier>>
    /\ UNCHANGED <<demo_mode, selected_store, current_task>>
    /\ UNCHANGED <<tab1vars, tab2vars>>

\* app.py:377-393: one archive entry per element of `results`.
BatchFinish ==
    /\ pc = "package"
    /\ zip_entries' =
           [k \in 1..Len(results) |->
               [name |-> entry_name(results[k][1]), data |-> results[k][2]]]
    /\ pc' = "done"
    /\ last_call' = NoCall
    /\ UNCHANGED <<results, progress, outcomes, single_status, txt_content>>
    /\ UNCHANGED <<uploaded_pdf, multiple_files, invoice_supplier>>
    /\ UNCHANGED <<demo_mode, selected_store, current_task>>
    /\ UNCHANGED <<tab1vars, tab2vars>>

(***************************************************************************)
(* Observation of the calls of the convert_pdf_to_ecrs defined in app.py.  *)
(***************************************************************************)
Observation(call) ==
    [pdf_file |-> call.pdf_file, store_id |-> call.store_id,
     supplier_name |-> call.supplier_name, outcome |-> call.outcome]

Observe ==
    history' = IF last_call'.made /\ last_call'.local
               THEN history \cup {Observation(last_call')}
               ELSE history

(***************************************************************************)
(* Specifications.                                                         *)
(***************************************************************************)
\* Tab 2 alone, over every sheet and mapping.
NextSheets ==
    \/ \E f \in sheets \cup {NoSheet} : UploadSheet(f) /\ UNCHANGED history
    \/ \E c \in {"A", "B"}, fld \in canonical_fields :
          SelectMapping(c, fld) /\ UNCHANGED history
    \/ \E f \in output_formats : SelectOutputFormat(f) /\ UNCHANGED history
    \/ ConvertFormat /\ UNCHANGED history

SpecSheets == Init /\ [][NextSheets]_vars

\* Tab 3 alone, over every batch.
NextInvoices ==
    \/ \E s \in stores : SelectStore(s) /\ UNCHANGED history
    \/ \E s \in invoice_suppliers : SelectInvoiceSupplier(s) /\ UNCHANGED history
    \/ \E f \in pdf_names \cup {NoPdf} : UploadPdf(f) /\ UNCHANGED history
    \/ \E fs \in batches : UploadBatch(fs) /\ UNCHANGED history
    \/ ConvertSingle /\ UNCHANGED history
    \/ BatchStart /\ UNCHANGED history
    \/ BatchStep /\ UNCHANGED history
    \/ BatchFinish /\ UNCHANGED history

SpecInvoices == Init /\ [][NextInvoices]_vars

\* Tab 3 with every call of the local convert_pdf_to_ecrs observed.
NextConversions ==
    \/ \E s \in stores : SelectStore(s) /\ Observe
    \/ \E s \in invoice_suppliers : SelectInvoiceSupplier(s) /\ Observe
    \/ \E f \in app_pdfs \cup {NoPdf} : UploadPdf(f) /\ Observe
    \/ \E fs \in observed_batches : UploadBatch(fs) /\ Observe
    \/ ConvertSingle /\ Observe
    \/ BatchStart /\ Observe
    \/ BatchStep /\ Observe
    \/ BatchFinish /\ Observe

SpecConversions == Init /\ [][NextConversions]_vars

\* The whole application: the sidebar, tab 1, and every button handler of
\* tabs 2 and 3 over one sheet, one PDF and one batch (the selectboxes of
\* tabs 2 and 3 are exercised by the specifications above).
Next ==
    \/ \E s \in stores : SelectStore(s) /\ UNCHANGED history
    \/ ProcessAllPending /\ UNCHANGED history
    \/ ViewReports /\ UNCHANGED history
    \/ \E s \in suppliers : SelectSupplier(s) /\ UNCHANGED history
    \/ \E f \in order_files \cup {NoFile} : UploadOrderFile(f) /\ UNCHANGED history
    \/ StartAutoFill /\ UNCHANGED history
    \/ \E f \in app_sheets \cup {NoSheet} : UploadSheet(f) /\ UNCHANGED history
    \/ ConvertFormat /\ UNCHANGED history
    \/ \E f \in app_pdfs \cup {NoPdf} : UploadPdf(f) /\ UNCHANGED history
    \/ \E fs \in app_batches : UploadBatch(fs) /\ UNCHANGED history
    \/ ConvertSingle /\ UNCHANGED history
    \/ BatchStart /\ UNCHANGED history
    \/ BatchStep /\ UNCHANGED history
    \/ BatchFinish /\ UNCHANGED history

Spec == Init /\ [][Next]_vars


(***************************************************************************)
(* Vocabulary of the properties.                                           *)
(***************************************************************************)
BatchDone == pc = "done"

\* Indices of the batch documents whose conversion returned / raised.
Converted == { k \in 1..Len(outcomes) : ~outcomes[k].raised }
Failed == { k \in 1..Len(outcomes) : outcomes[k].raised }

\* The entries of `results`, in order, that belong to converted documents.
RECURSIVE EntriesOfConverted(_)
EntriesOfConverted(k) ==
    IF k = 0 THEN <<>>
    ELSE IF k \in Converted
         THEN Append(EntriesOfConverted(k - 1), results[k])
         ELSE EntriesOfConverted(k - 1)

\* A file name with its extension (what follows its last dot) replaced by .txt.
LastDot(name) ==
    LET dots == { k \in 1..Len(name) : name[k] = "." }
    IN IF dots = {} THEN Len(name) + 1
       ELSE CHOOSE k \in dots : \A j \in dots : j <= k

WithTxtExtension(name) == SubSeq(name, 1, LastDot(name) - 1) \o ext_txt

\* Splitting a text at a separator character.
RECURSIVE Split(_, _)
Split(s, sep) ==
    IF \A k \in 1..Len(s) : s[k] # sep THEN <<s>>
    ELSE LET first == CHOOSE k \in 1..Len(s) :
                         /\ s[k] = sep
                         /\ \A j \in 1..(k - 1) : s[j] # sep
         IN <<SubSeq(s, 1, first - 1)>> \o Split(SubSeq(s, first + 1, Len(s)), sep)

digits == {"0", "1", "2", "3", "4", "5", "6", "7", "8", "9"}

\* digits, a point, two digits
TwoDecimals(f) ==
    /\ Len(f) >= 4
    /\ f[Len(f) - 2] = "."
    /\ \A k \in 1..Len(f) : k # Len(f) - 2 => f[k] \in digits

\* Every line is terminated by a newline, and every line of three or more
\* comma-separated fields carries quantity and unit price with two decimals.
EcrsLinesWellFormed(text) ==
    /\ text # <<>> => text[Len(text)] = NL
    /\ \A k \in 1..Len(Split(text, NL)) :
          LET fields == Split(Split(text, NL)[k], ",")
          IN Len(fields) >= 3 => TwoDecimals(fields[2]) /\ TwoDecimals(fields[3])

\* Two columns are mapped to the same field other than Ignore.
DuplicateMapping(mapping) ==
    \E j, k \in 1..Len(mapping) :
        /\ j # k
        /\ mapping[j][2] = mapping[k][2]
        /\ mapping[j][2] # "Ignore"

FractionLess(p, q) == p.num * q.den < q.num * p.den

(***************************************************************************)
(* C1.  In a batch run every document is converted exactly once, in input  *)
(* order, whatever the earlier outcomes: the k-th call is for document k,  *)
(* the k-th recorded result carries the k-th file name, and when the loop  *)
(* has ended there are as many recorded results as documents.              *)
(***************************************************************************)
C1_EveryDocumentProcessedOnce ==
    pc \in {"loop", "package", "done"} =>
        /\ Len(results) = Len(outcomes)
        /\ Len(results) <= Len(multiple_files)
        /\ \A k \in 1..Len(outcomes) : outcomes[k].doc = k
        /\ \A k \in 1..Len(results) : results[k][1] = multiple_files[k]
        /\ pc \in {"package", "done"} =>
              /\ Len(results) = Len(multiple_files)
              /\ Cardinality(Converted) + Cardinality(Failed) = Len(multiple_files)

\* A finished run of three documents whose first conversion raised and whose
\* last one returned.
C1_Witness ==
    /\ BatchDone
    /\ Len(multiple_files) = 3
    /\ 1 \in Failed
    /\ 3 \in Converted
    /\ Len(results) = 3

(***************************************************************************)
(* C2.  As claimed: the collection of successes (the list the handler      *)
(* builds and bundles, `results`) holds exactly the documents whose        *)
(* conversion did not fail, in input order, and no failed document.        *)
(***************************************************************************)
C2_SucceededHoldsOnlyConverted ==
    BatchDone => results = EntriesOfConverted(Len(outcomes))

(***************************************************************************)
(* C3.  As claimed: the archive holds exactly one entry per successfully   *)
(* converted document and none for a document whose conversion failed.     *)
(***************************************************************************)
C3_ArchiveHoldsOnlyConverted ==
    BatchDone =>
        /\ Len(zip_entries) = Cardinality(Converted)
        /\ \A k \in Failed :
              \A e \in 1..Len(zip_entries) : zip_entries[e].data # results[k][2]

(***************************************************************************)
(* C4.  As claimed: every archive entry is named after its source document *)
(* with the extension, and only the extension, replaced by .txt.           *)
(***************************************************************************)
C4_EntryNameReplacesExtension ==
    BatchDone =>
        \A k \in 1..Len(zip_entries) :
            zip_entries[k].name = WithTxtExtension(results[k][1])

(***************************************************************************)
(* C5.  As claimed: a conversion never succeeds while two columns of the   *)
(* uploaded sheet are mapped to the same field other than Ignore.          *)
(***************************************************************************)
C5_DuplicateMappingRejected ==
    (MappingShown(uploaded_excel) /\ DuplicateMapping(column_mapping))
        => convert_status # "success"

(***************************************************************************)
(* C6.  As claimed: the text a conversion produces has every line ended by *)
(* a newline and its numeric fields written with exactly two decimals.     *)
(***************************************************************************)
C6_EcrsTextWellFormed ==
    single_status = "success" => EcrsLinesWellFormed(txt_content)

(***************************************************************************)
(* C7.  As claimed: with a mapping free of duplicate targets, the          *)
(* converted table has as many rows as the uploaded sheet.                 *)
(***************************************************************************)
C7_RowCountPreserved ==
    (/\ convert_status = "success"
     /\ MappingShown(uploaded_excel)
     /\ ~DuplicateMapping(column_mapping))
        => Len(processed_df) = uploaded_excel.nrows

(***************************************************************************)
(* C8.  Any two calls of the convert_pdf_to_ecrs of app.py with the same   *)
(* document, store and supplier had the same outcome, whatever was         *)
(* converted in between.                                                   *)
(***************************************************************************)
C8_SameInputsSameOutput ==
    \A g, h \in history :
        (/\ g.pdf_file = h.pdf_file
         /\ g.store_id = h.store_id
         /\ g.supplier_name = h.supplier_name)
            => g.outcome = h.outcome

\* A finished batch that held the same file twice, after some other
\* document had been converted as well.
C8_Witness ==
    /\ BatchDone
    /\ demo_mode
    /\ Len(multiple_files) = 2
    /\ multiple_files[1] = multiple_files[2]
    /\ Len(outcomes) = 2
    /\ \E g, h \in history : g.pdf_file # h.pdf_file

(***************************************************************************)
(* C9.  During a batch run each processed document, converted or not,      *)
(* advances the reported progress by exactly one document, the reported    *)
(* fraction strictly grows, and when the loop ends it is N of N.           *)
(***************************************************************************)
C9_ProgressCountsDocuments ==
    [][ /\ pc = "loop" =>
            /\ progress'.num = progress.num + 1
            /\ progress'.num = Len(outcomes')
            /\ progress'.den = Len(multiple_files)
            /\ FractionLess(progress, progress')
        /\ pc' \in {"package", "done"} =>
            /\ progress'.num = Len(multiple_files)
            /\ progress'.num = progress'.den ]_vars

\* A finished run of three documents, one of which failed.
C9_Witness ==
    /\ BatchDone
    /\ Len(multiple_files) = 3
    /\ 2 \in Failed
    /\ progress = [num |-> 3, den |-> 3]

(***************************************************************************)
(* C10.  The activity log changes only by a press of the auto-fill button  *)
(* with a file uploaded whose automation call returned, and then by        *)
(* exactly one appended record (order_fill, supplier, store, file name); a *)
(* press without a file, a press whose call raised, and every other action *)
(* leave it as it was.                                                     *)
(***************************************************************************)
C10_LogGrowsOnlyOnOrderFill ==
    [][ /\ order_status' = "success" =>
            /\ uploaded_file # NoFile
            /\ activity_log' =
                   Append(activity_log,
                          LogRecord(selected_supplier, selected_store, uploaded_file))
        /\ order_status' # "success" => activity_log' = activity_log
        /\ (order_status' # "none" /\ uploaded_file = NoFile) =>
               order_status' = "no_file" ]_vars

\* A second record appended to a log that already held one from another store.
C10_Witness ==
    /\ order_status = "success"
    /\ Len(activity_log) = 2
    /\ activity_log[1].store # activity_log[2].store

====
